---------------------------- MODULE Spec2Model ----------------------------
(***************************************************************************)
(* Context-free grammar representation and analysis (src/cfgrammar.c):     *)
(* nonterminal discovery, the epsilon fixpoint, the string-set trie and    *)
(* the memoized FIRST_1 / FOLLOW_1 computation.                            *)
(*                                                                         *)
(* Pointers are modelled by identity.  An HCFChoice is named by a string   *)
(* ("N1", "a", ...); an HCFStringMap lives in `heap`, a sequence of nodes, *)
(* and the address of the i-th allocated node is i + INSET, so that no     *)
(* node address equals NULL (0) or INSET (1).  Hash tables are functions   *)
(* from keys to values.  The arena hands out zero-filled memory and never  *)
(* reuses it, so a fresh node has NULL branches.                           *)
(***************************************************************************)
EXTENDS Integers, Sequences, FiniteSets, TLC

VARIABLES
  sym,                \* the HCFChoice objects: symbol -> [type, chr, charset, seq]
  root,               \* what h_desugar returned
  pc,                 \* where the program is: "desugared", "geneps", "ready", "trie"
  nts,                \* g->nts: nonterminal -> id
  ntsOrder,           \* the order in which iterating g->nts yields its keys
  start,              \* g->start
  geneps,             \* g->geneps (a set of symbols)
  prevused,           \* collect_geneps: prevused of the pass that ended last
  passes,             \* collect_geneps: full passes over g->nts done so far
  heap,               \* the HCFStringMap nodes allocated in g->arena
  first,              \* g->first : k -> (symbol -> node address)
  follow,             \* g->follow: k -> (symbol -> node address)
  kmax,               \* g->kmax
  singleton_epsilon,  \* g->singleton_epsilon
  last,               \* the last call made and what it returned
  frames              \* the activation records of the query in progress

vars == << sym, root, pc, nts, ntsOrder, start, geneps, prevused, passes,
           heap, first, follow, kmax, singleton_epsilon, last, frames >>

-----------------------------------------------------------------------------
(* Values and bounds *)

NULL == 0
INSET == 1

\* bytes are 0..MaxByte instead of 0..255
MaxByte == 1
\* the string-set specification allocates at most MaxNodes trie nodes
MaxNodes == 5
\* membership is asked for strings of at most MaxStr bytes
MaxStr == 2

Bytes == 0..MaxByte

-----------------------------------------------------------------------------
(* Hash tables (HHashTable), as functions *)

EmptyTable == [x \in {} |-> NULL]

h_hashtable_get(t, k) == IF k \in DOMAIN t THEN t[k] ELSE NULL

h_hashtable_present(t, k) == k \in DOMAIN t

h_hashtable_put(t, k, v) == (k :> v) @@ t

\* every entry of src is put into dst
h_hashtable_update(dst, src) == src @@ dst

h_hashtable_empty(t) == DOMAIN t = {}

-----------------------------------------------------------------------------
(* String sets (HCFStringMap) *)

AddrOf(i) == i + INSET
Node(h, p) == h[p - INSET]
SetNode(h, p, n) == [h EXCEPT ![p - INSET] = n]

h_arena_malloc ==
  [epsilon_branch |-> NULL, end_branch |-> NULL, char_branches |-> NULL]

\* returns the heap with the new node and the node's address
h_stringmap_new(h) ==
  [heap |-> Append(h, [h_arena_malloc EXCEPT !.char_branches = EmptyTable]),
   ret  |-> AddrOf(Len(h) + 1)]

h_stringmap_put_end(h, m, v) ==
  SetNode(h, m, [Node(h, m) EXCEPT !.end_branch = v])

h_stringmap_put_epsilon(h, m, v) ==
  SetNode(h, m, [Node(h, m) EXCEPT !.epsilon_branch = v])

h_stringmap_put_char(h, m, c, v) ==
  LET r  == h_stringmap_new(h)
      h1 == h_stringmap_put_epsilon(r.heap, r.ret, v)
  IN  SetNode(h1, m, [Node(h1, m) EXCEPT
                        !.char_branches = h_hashtable_put(@, c, r.ret)])

\* h_stringmap_update writing the union into n as well
h_stringmap_update_both(h, m, n) ==
  LET h1 == IF Node(h, n).epsilon_branch # NULL
              THEN h_stringmap_put_epsilon(h, m, Node(h, n).epsilon_branch)
              ELSE h
      h2 == IF Node(h1, n).end_branch # NULL
              THEN h_stringmap_put_end(h1, m, Node(h1, n).end_branch)
              ELSE h1
      h3 == SetNode(h2, m, [Node(h2, m) EXCEPT
              !.char_branches = h_hashtable_update(@, Node(h2, n).char_branches)])
  IN  SetNode(h3, n, Node(h3, m))

h_stringmap_update(h, m, n) ==
  LET h1 == IF Node(h, n).epsilon_branch # NULL
              THEN h_stringmap_put_epsilon(h, m, Node(h, n).epsilon_branch)
              ELSE h
      h2 == IF Node(h1, n).end_branch # NULL
              THEN h_stringmap_put_end(h1, m, Node(h1, n).end_branch)
              ELSE h1
  IN  SetNode(h2, m, [Node(h2, m) EXCEPT
        !.char_branches = h_hashtable_update(@, Node(h2, n).char_branches)])

\* the loop of h_stringmap_get from index i (0-based); str is 1-based here
RECURSIVE stringmap_get_from(_, _, _, _, _, _)
stringmap_get_from(h, m, str, n, end, i) ==
  IF i >= n THEN Node(h, m).epsilon_branch
  ELSE IF i = n - 1 /\ end /\ Node(h, m).end_branch # NULL
    THEN Node(h, m).end_branch
  ELSE LET m2 == h_hashtable_get(Node(h, m).char_branches, str[i + 1])
       IN  IF m2 = NULL THEN NULL
           ELSE stringmap_get_from(h, m2, str, n, end, i + 1)

h_stringmap_get(h, m, str, n, end) == stringmap_get_from(h, m, str, n, end, 0)

h_stringmap_present(h, m, str, n, end) ==
  h_stringmap_get(h, m, str, n, end) # NULL


-----------------------------------------------------------------------------
(* Symbols (HCFChoice) and grammars *)

Nonterminals == {"N1", "N2", "N3", "N4"}
Terminals == {"a", "b", "end", "cs"}
\* the HCF_CHOICE that h_cfgrammar allocates around a terminal root
Wrapper == "W"

Terminal(type, chr, charset) ==
  [type |-> type, chr |-> chr, charset |-> charset, seq |-> << >>]
Choice(seq) ==
  [type |-> "HCF_CHOICE", chr |-> 0, charset |-> {}, seq |-> seq]

\* the symbol store in which the four nonterminals have the productions given
Store(prods) ==
  [x \in Nonterminals \cup Terminals |->
     CASE x = "a"   -> Terminal("HCF_CHAR", 0, {})
       [] x = "b"   -> Terminal("HCF_CHAR", 1, {})
       [] x = "end" -> Terminal("HCF_END", 0, {})
       [] x = "cs"  -> Terminal("HCF_CHARSET", 0, Bytes)
       [] OTHER     -> Choice(prods[x])]

\* one or two different productions out of the right-hand sides in Q
ProdLists(Q) ==
  {<<s>> : s \in Q} \cup {p \in Q \X Q : p[1] # p[2]}

EpsOnly == << << >> >>

\* grammars over N1 and N2 on which FIRST and FOLLOW are queried
QueryRhs1 ==
  { << >>, <<"a">>, <<"end">>, <<"N1", "a">>, <<"N2">>, <<"N2", "b">> }
QueryRhs2 ==
  { << >>, <<"b">>, <<"cs">>, <<"N1">>, <<"N1", "b">>, <<"N2", "N1">> }
QueryGrammars ==
  { [x \in Nonterminals |->
       IF x = "N1" THEN p1 ELSE IF x = "N2" THEN p2 ELSE EpsOnly] :
    p1 \in ProdLists(QueryRhs1), p2 \in ProdLists(QueryRhs2) }

\* grammars over N1..N4 for nonterminal discovery and the epsilon fixpoint
Succ1(x) == CASE x = "N1" -> "N2" [] x = "N2" -> "N3"
              [] x = "N3" -> "N4" [] OTHER -> "N1"
BuildLists(x) ==
  { << << >> >>,
    << <<"a">> >>,
    << <<"cs">>, <<"end">> >>,
    << <<Succ1(x)>> >>,
    << <<Succ1(Succ1(x)), Succ1(x)>> >>,
    << <<Succ1(x), Succ1(Succ1(Succ1(x)))>>, << >> >>,
    << <<x, "a">>, <<Succ1(Succ1(x))>> >> }
BuildGrammars ==
  { [x \in Nonterminals |->
       CASE x = "N1" -> p1 [] x = "N2" -> p2 [] x = "N3" -> p3 [] OTHER -> p4] :
    p1 \in BuildLists("N1"), p2 \in BuildLists("N2"),
    p3 \in BuildLists("N3"), p4 \in BuildLists("N4") }

IsTerminalType(t) == t \in {"HCF_CHAR", "HCF_END", "HCF_CHARSET"}

-----------------------------------------------------------------------------
(* h_cfgrammar: nonterminal discovery *)

\* h_hashset_put(ht, el) is h_hashtable_put(ht, el, NULL)
h_hashset_put(t, el) == h_hashtable_put(t, el, NULL)

RECURSIVE collect_nts(_, _, _)
RECURSIVE collect_nts_seqs(_, _, _, _)
RECURSIVE collect_nts_items(_, _, _, _, _)

\* collect_nts numbering from 1: the id taken after the insertion
collect_nts_from_one(S, t, symbol) ==
  IF h_hashtable_present(t, symbol) THEN t
  ELSE IF IsTerminalType(S[symbol].type) THEN t
  ELSE collect_nts_seqs(S, h_hashtable_put(t, symbol, Cardinality(DOMAIN t) + 1),
                        symbol, 1)

\* collect_nts taking a charset for a nonterminal
collect_nts_charset(S, t, symbol) ==
  IF h_hashtable_present(t, symbol) THEN t
  ELSE IF S[symbol].type \in {"HCF_CHAR", "HCF_END"} THEN t
  ELSE collect_nts_seqs(S, h_hashtable_put(t, symbol, Cardinality(DOMAIN t)),
                        symbol, 1)

\* S is the symbol store, t the table g->nts
collect_nts(S, t, symbol) ==
  IF h_hashtable_present(t, symbol) THEN t
  ELSE IF IsTerminalType(S[symbol].type) THEN t
  ELSE collect_nts_seqs(S, h_hashtable_put(t, symbol, Cardinality(DOMAIN t)),
                        symbol, 1)

\* for(s = symbol->seq; *s != NULL; s++)
collect_nts_seqs(S, t, symbol, s) ==
  IF s > Len(S[symbol].seq) THEN t
  ELSE collect_nts_seqs(S, collect_nts_items(S, t, symbol, s, 1), symbol, s + 1)

\* for(x = (*s)->items; *x != NULL; x++)
collect_nts_items(S, t, symbol, s, x) ==
  IF x > Len(S[symbol].seq[s]) THEN t
  ELSE collect_nts_items(S, collect_nts(S, t, S[symbol].seq[s][x]),
                         symbol, s, x + 1)

\* the sequences that list every element of the set K once
Orders(K) ==
  { o \in [1..Cardinality(K) -> K] : \A i, j \in DOMAIN o : o[i] = o[j] => i = j }

\* h_cfgrammar_new making singleton_epsilon the set that holds End
h_cfgrammar_new_end ==
  LET r == h_stringmap_new(<< >>)
  IN  [nts |-> EmptyTable, geneps |-> NULL, first |-> NULL, follow |-> NULL,
       kmax |-> 0,
       heap |-> h_stringmap_put_end(r.heap, r.ret, INSET),
       singleton_epsilon |-> r.ret]

\* the fields of the grammar h_cfgrammar_new returns
h_cfgrammar_new ==
  LET r == h_stringmap_new(<< >>)
  IN  [nts |-> EmptyTable, geneps |-> NULL, first |-> NULL, follow |-> NULL,
       kmax |-> 0,
       heap |-> h_stringmap_put_epsilon(r.heap, r.ret, INSET),
       singleton_epsilon |-> r.ret]

\* h_cfgrammar up to the call of collect_geneps, and collect_geneps up to its loop
HCfgrammar ==
  /\ pc = "desugared"
  /\ LET g == h_cfgrammar_new
         t == collect_nts(sym, g.nts, root)
     IN  /\ IF h_hashtable_empty(t)
              THEN /\ sym' = [x \in (DOMAIN sym) \cup {Wrapper} |->
                                IF x = Wrapper THEN Choice(<< <<root>> >>)
                                ELSE sym[x]]
                   /\ nts' = h_hashset_put(t, Wrapper)
                   /\ start' = Wrapper
              ELSE /\ sym' = sym
                   /\ nts' = t
                   /\ start' = root
         /\ heap' = g.heap
         /\ singleton_epsilon' = g.singleton_epsilon
         /\ first' = g.first
         /\ follow' = g.follow
         /\ kmax' = g.kmax
  /\ ntsOrder' \in Orders(DOMAIN nts')
  /\ geneps' = {}
  /\ prevused' = 0
  /\ passes' = 0
  /\ pc' = "geneps"
  /\ UNCHANGED << root, last, frames >>

-----------------------------------------------------------------------------
(* The epsilon fixpoint *)

\* E is g->geneps
h_derives_epsilon(S, E, symbol) ==
  IF IsTerminalType(S[symbol].type) THEN FALSE ELSE symbol \in E

\* h_derives_epsilon_seq looking at the first symbol only
h_derives_epsilon_seq_first(S, E, s) ==
  Len(s) = 0 \/ h_derives_epsilon(S, E, s[1])

h_derives_epsilon_seq(S, E, s) ==
  \A i \in 1..Len(s) : h_derives_epsilon(S, E, s[i])

\* one pass of collect_geneps over g->nts, from the i-th key on
RECURSIVE geneps_pass(_, _, _, _)
geneps_pass(S, order, E, i) ==
  IF i > Len(order) THEN E
  ELSE LET symbol == order[i]
       IN  geneps_pass(S, order,
             IF \E p \in 1..Len(S[symbol].seq) :
                  h_derives_epsilon_seq(S, E, S[symbol].seq[p])
               THEN E \cup {symbol} ELSE E,
             i + 1)

\* the loop going on for as long as the set is not empty
geneps_again_nonempty(used, prev) == used # prev \/ used # 0

\* while(g->geneps->used != prevused)
geneps_again(used, prev) == used # prev

\* one iteration of the do-while loop of collect_geneps
GenepsPass ==
  /\ pc = "geneps"
  /\ geneps' = geneps_pass(sym, ntsOrder, geneps, 1)
  /\ prevused' = Cardinality(geneps)
  /\ passes' = passes + 1
  /\ pc' = IF geneps_again(Cardinality(geneps'), prevused') THEN "geneps"
           ELSE "ready"
  /\ UNCHANGED << sym, root, nts, ntsOrder, start, heap, first, follow, kmax,
                  singleton_epsilon, last, frames >>

-----------------------------------------------------------------------------
(* FIRST_k and FOLLOW_k.  G is the mutable part of the grammar, the record   *)
(* [heap, first, follow, kmax]; a call returns [g |-> G after it, ret |->    *)
(* the address returned].  sym, nts, ntsOrder, start and singleton_epsilon   *)
(* do not change once h_cfgrammar has returned.                             *)

\* only k = 1 passes the assertion of ensure_k
ensure_k(G, k) ==
  IF k <= G.kmax THEN G
  ELSE [G EXCEPT !.first  = [i \in 0..k |-> EmptyTable],
                 !.follow = [i \in 0..k |-> EmptyTable],
                 !.kmax   = k]

is_singleton_epsilon(h, m) ==
  /\ Node(h, m).epsilon_branch # NULL
  /\ Node(h, m).end_branch = NULL
  /\ h_hashtable_empty(Node(h, m).char_branches)

RECURSIVE any_string_shorter(_, _, _)
any_string_shorter(h, k, m) ==
  IF k = 0 THEN FALSE
  ELSE IF Node(h, m).epsilon_branch # NULL THEN TRUE
  ELSE \E c \in DOMAIN Node(h, m).char_branches :
         any_string_shorter(h, k - 1, Node(h, m).char_branches[c])

\* the least byte of a set of bytes: branches are visited in this order
MinOf(B) == CHOOSE c \in B : \A d \in B : c <= d

\* TRUE of every G.  Done(G) in the guard of an operator has TLC compute the
\* state G that the statements before left when the operator is entered, as
\* the code does, instead of deferring it to the first read of G in some
\* later call.
Done(G) == G.kmax >= 0

RECURSIVE h_first(_, _, _)
RECURSIVE first_charset(_, _, _, _)
RECURSIVE first_productions(_, _, _, _, _)
RECURSIVE h_first_seq(_, _, _)
RECURSIVE first_seq_tail(_, _, _)
RECURSIVE first_extend(_, _, _, _, _)
RECURSIVE first_extend_end(_, _, _, _, _)
RECURSIVE first_extend_branches(_, _, _, _, _, _)
RECURSIVE h_follow(_, _, _)
RECURSIVE follow_nts(_, _, _, _, _)
RECURSIVE follow_productions(_, _, _, _, _, _)
RECURSIVE follow_items(_, _, _, _, _, _, _)
RECURSIVE follow_occurrence(_, _, _, _)
RECURSIVE StringSetFun(_, _, _, _)
RECURSIVE stringset_extend(_, _, _, _, _, _)
RECURSIVE stringset_extend_end(_, _, _, _, _, _)
RECURSIVE stringset_extend_branches(_, _, _, _, _, _, _)

\* h_stringmap_update(ret, r) for the set r that a call returned: r is
\* [g |-> the grammar after the call, ret |-> the set]
stringmap_update_with(r, ret) ==
  [r.g EXCEPT !.heap = h_stringmap_update(@, ret, r.ret)]

h_first(G, k, x) ==
  IF k = 0 THEN [g |-> G, ret |-> singleton_epsilon]
  ELSE
    LET G1  == ensure_k(G, k)
        hit == h_hashtable_get(G1.first[k], x)
    IN  IF hit # NULL THEN [g |-> G1, ret |-> hit]
        ELSE
          LET r   == h_stringmap_new(G1.heap)
              ret == r.ret
              G2  == [G1 EXCEPT !.heap = r.heap,
                                !.first[k] = h_hashtable_put(@, x, ret)]
          IN  CASE sym[x].type = "HCF_END" ->
                     [g |-> [G2 EXCEPT !.heap = h_stringmap_put_end(@, ret, INSET)],
                      ret |-> ret]
                [] sym[x].type = "HCF_CHAR" ->
                     [g |-> [G2 EXCEPT !.heap =
                               h_stringmap_put_char(@, ret, sym[x].chr, INSET)],
                      ret |-> ret]
                [] sym[x].type = "HCF_CHARSET" ->
                     [g |-> [G2 EXCEPT !.heap =
                               first_charset(@, ret, sym[x].charset, 0)],
                      ret |-> ret]
                [] sym[x].type = "HCF_CHOICE" ->
                     [g |-> first_productions(G2, k, x, ret, 1), ret |-> ret]

\* c=0; do { ... } while(c++ < 255), over the bytes of the model
first_charset(h, ret, charset, c) ==
  IF Len(h) > 0 /\ c <= MaxByte
    THEN first_charset(IF c \in charset
                         THEN h_stringmap_put_char(h, ret, c, INSET) ELSE h,
                       ret, charset, c + 1)
    ELSE h

\* for(p=x->seq; *p; ++p) h_stringmap_update(ret, h_first_seq(k, g, (*p)->items))
first_productions(G, k, x, ret, p) ==
  IF Done(G) /\ p <= Len(sym[x].seq)
    THEN first_productions(
           stringmap_update_with(h_first_seq(G, k, sym[x].seq[p]), ret),
           k, x, ret, p + 1)
    ELSE G

h_first_seq(G, k, s) ==
  IF s = << >> THEN [g |-> G, ret |-> singleton_epsilon]
  ELSE first_seq_tail(h_first(G, k, Head(s)), k, Tail(s))

\* h_first_seq from the call of h_first on: first_x is what that call returned
first_seq_tail(first_x, k, tail) ==
  IF is_singleton_epsilon(first_x.g.heap, first_x.ret)
    THEN h_first_seq(first_x.g, k, tail)
  ELSE IF ~any_string_shorter(first_x.g.heap, k, first_x.ret)
    THEN first_x
  ELSE
    LET r == h_stringmap_new(first_x.g.heap)
    IN  [g   |-> first_extend([first_x.g EXCEPT !.heap = r.heap],
                              r.ret, k, first_x.ret, tail),
         ret |-> r.ret]

\* as is read where the code reads it: before and after the calls it makes
first_extend(G, ret, k, as, tail) ==
  first_extend_end(
    IF Node(G.heap, as).epsilon_branch # NULL
      THEN stringmap_update_with(h_first_seq(G, k, tail), ret)
      ELSE G,
    ret, k, as, tail)

\* first_extend from if(as->end_branch) on
first_extend_end(G, ret, k, as, tail) ==
  LET G2 == IF Node(G.heap, as).end_branch # NULL
              THEN [G EXCEPT !.heap = h_stringmap_put_end(@, ret, INSET)]
              ELSE G
  IN  first_extend_branches(G2, ret, k, as, tail,
                            DOMAIN Node(G2.heap, as).char_branches)

\* the loop over as->char_branches; todo holds the keys not yet visited
first_extend_branches(G, ret, k, as, tail, todo) ==
  IF Done(G) /\ todo # {}
    THEN
      LET c   == MinOf(todo)
          as_ == Node(G.heap, as).char_branches[c]
          r   == h_stringmap_new(G.heap)
          h1  == h_stringmap_put_char(r.heap, ret, c, r.ret)
      IN  first_extend_branches(
            first_extend([G EXCEPT !.heap = h1], r.ret, k - 1, as_, tail),
            ret, k, as, tail, todo \ {c})
    ELSE G

\* h_follow without the End it puts into the set of g->start
h_follow_no_end(G, k, x) ==
  IF k = 0 THEN [g |-> G, ret |-> singleton_epsilon]
  ELSE
    LET G1  == ensure_k(G, k)
        hit == h_hashtable_get(G1.follow[k], x)
    IN  IF hit # NULL THEN [g |-> G1, ret |-> hit]
        ELSE
          LET r   == h_stringmap_new(G1.heap)
              ret == r.ret
              G2  == [G1 EXCEPT !.heap = r.heap,
                                !.follow[k] = h_hashtable_put(@, x, ret)]
          IN  [g |-> follow_nts(G2, k, x, ret, 1), ret |-> ret]

h_follow(G, k, x) ==
  IF k = 0 THEN [g |-> G, ret |-> singleton_epsilon]
  ELSE
    LET G1  == ensure_k(G, k)
        hit == h_hashtable_get(G1.follow[k], x)
    IN  IF hit # NULL THEN [g |-> G1, ret |-> hit]
        ELSE
          LET r   == h_stringmap_new(G1.heap)
              ret == r.ret
              G2  == [G1 EXCEPT !.heap = r.heap,
                                !.follow[k] = h_hashtable_put(@, x, ret)]
              G3  == IF x = start
                       THEN [G2 EXCEPT !.heap = h_stringmap_put_end(@, ret, INSET)]
                       ELSE G2
          IN  [g |-> follow_nts(G3, k, x, ret, 1), ret |-> ret]

\* the iteration over g->nts, from its i-th key on
follow_nts(G, k, x, ret, i) ==
  IF Done(G) /\ i <= Len(ntsOrder)
    THEN follow_nts(follow_productions(G, k, x, ret, ntsOrder[i], 1),
                    k, x, ret, i + 1)
    ELSE G

\* for(p=a->seq; *p; p++)
follow_productions(G, k, x, ret, a, p) ==
  IF Done(G) /\ p <= Len(sym[a].seq)
    THEN follow_productions(follow_items(G, k, x, ret, a, p, 1),
                            k, x, ret, a, p + 1)
    ELSE G

\* for(; *s; s++) if(*s == x) ...
follow_items(G, k, x, ret, a, p, s) ==
  IF Done(G) /\ s <= Len(sym[a].seq[p])
    THEN follow_items(
           IF sym[a].seq[p][s] = x
             THEN follow_occurrence(
                    h_first_seq(G, k, SubSeq(sym[a].seq[p], s + 1,
                                             Len(sym[a].seq[p]))),
                    ret, k, a)
             ELSE G,
           k, x, ret, a, p, s + 1)
    ELSE G

\* stringset_extend(g, ret, k, first_tail, h_follow_, &a)
follow_occurrence(first_tail, ret, k, a) ==
  stringset_extend(first_tail.g, ret, k, first_tail.ret, "h_follow_", a)

\* f(k, g, tail) for the StringSetFun f; h_follow_(k, g, s) is h_follow(k, g, *s)
StringSetFun(f, G, k, tail) ==
  CASE f = "h_follow_" -> h_follow(G, k, tail)

stringset_extend(G, ret, k, as, f, tail) ==
  stringset_extend_end(
    IF Node(G.heap, as).epsilon_branch # NULL
      THEN stringmap_update_with(StringSetFun(f, G, k, tail), ret)
      ELSE G,
    ret, k, as, f, tail)

\* stringset_extend from if(as->end_branch) on
stringset_extend_end(G, ret, k, as, f, tail) ==
  LET G2 == IF Node(G.heap, as).end_branch # NULL
              THEN [G EXCEPT !.heap = h_stringmap_put_end(@, ret, INSET)]
              ELSE G
  IN  stringset_extend_branches(G2, ret, k, as, f, tail,
                                DOMAIN Node(G2.heap, as).char_branches)

stringset_extend_branches(G, ret, k, as, f, tail, todo) ==
  IF Done(G) /\ todo # {}
    THEN
      LET c   == MinOf(todo)
          as_ == Node(G.heap, as).char_branches[c]
          r   == h_stringmap_new(G.heap)
          h1  == h_stringmap_put_char(r.heap, ret, c, r.ret)
      IN  stringset_extend_branches(
            stringset_extend([G EXCEPT !.heap = h1], r.ret, k - 1, as_, f, tail),
            ret, k, as, f, tail, todo \ {c})
    ELSE G

\* the mutable part of g in the current state
Grammar == [heap |-> heap, first |-> first, follow |-> follow, kmax |-> kmax]

\* the caller's h_first(k, g, x)
First(k, x) ==
  /\ pc = "ready"
  /\ \E r \in {h_first(Grammar, k, x)} :
         /\ heap' = r.g.heap
         /\ first' = r.g.first
         /\ follow' = r.g.follow
         /\ kmax' = r.g.kmax
         /\ last' = [fn |-> "h_first", k |-> k, x |-> x, ret |-> r.ret,
                      before |-> Len(heap)]
  /\ UNCHANGED << sym, root, pc, nts, ntsOrder, start, geneps, prevused,
                  passes, singleton_epsilon, frames >>

\* the caller's h_follow(k, g, x)
Follow(k, x) ==
  /\ pc = "ready"
  /\ \E r \in {h_follow(Grammar, k, x)} :
         /\ heap' = r.g.heap
         /\ first' = r.g.first
         /\ follow' = r.g.follow
         /\ kmax' = r.g.kmax
         /\ last' = [fn |-> "h_follow", k |-> k, x |-> x, ret |-> r.ret,
                      before |-> Len(heap)]
  /\ UNCHANGED << sym, root, pc, nts, ntsOrder, start, geneps, prevused,
                  passes, singleton_epsilon, frames >>

\* last is the outermost call that returned last: the function, its arguments,
\* the address it returned and the number of nodes allocated before it
NoCall == [fn |-> "none", k |-> 0, x |-> "none", ret |-> NULL, before |-> 0]

InitGrammar(grammars, roots) ==
  /\ \E prods \in grammars : sym = Store(prods)
  /\ root \in roots
  /\ pc = "desugared"
  /\ nts = EmptyTable
  /\ ntsOrder = << >>
  /\ start = "none"
  /\ geneps = {}
  /\ prevused = 0
  /\ passes = 0
  /\ heap = << >>
  /\ first = NULL
  /\ follow = NULL
  /\ kmax = 0
  /\ singleton_epsilon = NULL
  /\ last = NoCall
  /\ frames = << >>

InitBuild == InitGrammar(BuildGrammars, {"N1", "a", "end", "cs"})

NextBuild == HCfgrammar \/ GenepsPass

SpecBuild == InitBuild /\ [][NextBuild]_vars

Init == InitGrammar(QueryGrammars, {"N1", "a", "end", "cs"})

Next ==
  \/ HCfgrammar
  \/ GenepsPass
  \/ \E k \in {0, 1} : \E x \in DOMAIN nts : First(k, x)
  \/ \E k \in {0, 1} : \E x \in DOMAIN nts : Follow(k, x)

Spec == Init /\ [][Next]_vars


-----------------------------------------------------------------------------
(* Reference definitions on the symbol graph *)

Range(f) == {f[i] : i \in DOMAIN f}

\* the symbols that occur in the productions of x
ItemsOf(S, x) == UNION {Range(S[x].seq[p]) : p \in 1..Len(S[x].seq)}

RECURSIVE Closure(_, _)
Closure(S, R) ==
  LET R2 == R \cup UNION {ItemsOf(S, x) : x \in R}
  IN  IF R2 = R THEN R ELSE Closure(S, R2)

\* the symbols of the grammar: what g->start reaches through sequence items
ReachableSymbols == Closure(sym, {start})
ReachableNonterminals == {x \in ReachableSymbols : sym[x].type = "HCF_CHOICE"}

\* the least set E with N in E whenever one of N's productions lies in E
EpsStep(S, N, E) ==
  {x \in N : \E p \in 1..Len(S[x].seq) : Range(S[x].seq[p]) \subseteq E}
RECURSIVE LeastEps(_, _, _)
LeastEps(S, N, E) ==
  LET E2 == EpsStep(S, N, E) IN IF E2 = E THEN E ELSE LeastEps(S, N, E2)
RefEps == LeastEps(sym, ReachableNonterminals, {})

\* the items of all productions of x, in order
RECURSIVE Flat(_, _, _)
Flat(S, x, p) ==
  IF p > Len(S[x].seq) THEN << >> ELSE S[x].seq[p] \o Flat(S, x, p + 1)

\* depth-first walk with an explicit stack: the nonterminals in first-visit order
RECURSIVE DfsOrder(_, _, _)
DfsOrder(S, stack, seen) ==
  IF stack = << >> THEN seen
  ELSE LET x == Head(stack)
       IN  IF S[x].type # "HCF_CHOICE" \/ x \in Range(seen)
             THEN DfsOrder(S, Tail(stack), seen)
             ELSE DfsOrder(S, Flat(S, x, 1) \o Tail(stack), Append(seen, x))

-----------------------------------------------------------------------------
(* Claims on h_cfgrammar *)

\* C3: once collect_geneps has run, h_derives_epsilon holds of exactly the
\* nonterminals in the least set closed under "one production lies wholly in
\* the set", and is false of every Char, End and CharSet symbol.
C3_GenepsIsLeastFixpoint ==
  pc = "ready" =>
    \A x \in DOMAIN sym :
      h_derives_epsilon(sym, geneps, x) <=> x \in RefEps

\* nonterminals found to derive epsilon in different passes, and one that
\* does not
C3_Witness ==
  /\ pc = "ready"
  /\ Cardinality(geneps) >= 2
  /\ passes >= 3
  /\ geneps # DOMAIN nts
  /\ \E x \in Terminals : x \in ReachableSymbols

C5_IdsInDfsOrder ==
  pc = "ready" =>
    LET order == DfsOrder(sym, <<start>>, << >>)
    IN  /\ \A x, y \in DOMAIN nts : nts[x] = nts[y] => x = y
        /\ Len(order) = Cardinality(DOMAIN nts)
        /\ nts[start] = 0
        /\ \A x \in DOMAIN nts :
             nts[x] + 1 \in DOMAIN order /\ order[nts[x] + 1] = x
        /\ (IsTerminalType(sym[root].type) => DOMAIN nts = {Wrapper})
        /\ (~IsTerminalType(sym[root].type) => start = root)

\* N4 is met after N2 at the start symbol, and N3 only below N2: a
\* depth-first walk numbers N3 before N4, a breadth-first one would not
C5_Witness ==
  /\ pc = "ready"
  /\ root = "N1"
  /\ sym["N1"].seq[1] = <<"N2", "N4">>
  /\ "N3" \in ItemsOf(sym, "N2")
  /\ nts["N2"] = 1 /\ nts["N3"] = 2 /\ nts["N4"] = 3

\* C9: collect_geneps ends after at most |g->nts| + 1 passes, and no pass
\* takes a member out of g->geneps.
C9_PassesBoundedAndMonotone ==
  /\ [](passes <= Cardinality(DOMAIN nts) + 1)
  /\ [][geneps \subseteq geneps']_vars

\* four nonterminals, five passes: every pass but the last found one more
C9_Witness ==
  /\ pc = "ready"
  /\ Cardinality(DOMAIN nts) = 4
  /\ passes = 5
  /\ geneps = DOMAIN nts

-----------------------------------------------------------------------------
(* Reference FIRST_1 and FOLLOW_1, and the membership of a stored set *)

\* the members of a FIRST_1 or FOLLOW_1 set: a byte, End, or the empty string
EndTok == MaxByte + 1
EpsTok == MaxByte + 2

\* what the set at address m holds, read from the trie as a caller reads it
Members(h, m) ==
  (IF h_stringmap_present(h, m, << >>, 0, FALSE) THEN {EpsTok} ELSE {})
    \cup (IF Node(h, m).end_branch # NULL THEN {EndTok} ELSE {})
    \cup {c \in Bytes : h_stringmap_present(h, m, <<c>>, 1, FALSE)}

\* FIRST_1 of the sequence s when F gives FIRST_1 of every symbol
RECURSIVE RefFirstSeq(_, _)
RefFirstSeq(F, s) ==
  IF s = << >> THEN {EpsTok}
  ELSE (F[Head(s)] \ {EpsTok})
         \cup (IF EpsTok \in F[Head(s)] THEN RefFirstSeq(F, Tail(s)) ELSE {})

RefFirstStep(S, F) ==
  [x \in DOMAIN S |->
     CASE S[x].type = "HCF_CHAR"    -> {S[x].chr}
       [] S[x].type = "HCF_END"     -> {EndTok}
       [] S[x].type = "HCF_CHARSET" -> S[x].charset
       [] OTHER ->
            UNION {RefFirstSeq(F, S[x].seq[p]) : p \in 1..Len(S[x].seq)}]

RECURSIVE RefFirstFix(_, _)
RefFirstFix(S, F) ==
  LET F2 == RefFirstStep(S, F) IN IF F2 = F THEN F ELSE RefFirstFix(S, F2)

\* the least solution: x -> the first tokens of the strings x derives
RefFirst == RefFirstFix(sym, [x \in DOMAIN sym |-> {}])

\* what the occurrence of x at position s of production p of a gives FOLLOW_1(x)
RefFollowAt(S, FI, FO, a, p, s) ==
  LET rhs == S[a].seq[p]
      ft  == RefFirstSeq(FI, SubSeq(rhs, s + 1, Len(rhs)))
  IN  (ft \ {EpsTok}) \cup (IF EpsTok \in ft THEN FO[a] ELSE {})

RefFollowStep(S, N, FI, FO) ==
  [x \in N |->
     (IF x = start THEN {EndTok} ELSE {}) \cup
     UNION { UNION { UNION { RefFollowAt(S, FI, FO, a, p, s) :
                               s \in {i \in 1..Len(S[a].seq[p]) :
                                        S[a].seq[p][i] = x} } :
                       p \in 1..Len(S[a].seq) } :
             a \in N }]

RECURSIVE RefFollowFix(_, _, _, _)
RefFollowFix(S, N, FI, FO) ==
  LET FO2 == RefFollowStep(S, N, FI, FO)
  IN  IF FO2 = FO THEN FO ELSE RefFollowFix(S, N, FI, FO2)

\* the least solution over the nonterminals that g->start reaches
RefFollow ==
  RefFollowFix(sym, ReachableNonterminals, RefFirst,
               [x \in ReachableNonterminals |-> {}])

-----------------------------------------------------------------------------
(* Claims on h_first and h_follow *)

\* C1: the set h_first(1, g, X) returns has exactly the members of the
\* reference FIRST_1(X): epsilon iff X derives the empty string, byte c iff X
\* derives a string beginning with c, End iff X derives one beginning with End.
C1_FirstIsReference ==
  (pc = "ready" /\ last.fn = "h_first" /\ last.k = 1) =>
    Members(heap, last.ret) = RefFirst[last.x]

\* C2: for a nonterminal X that g->start reaches, the set h_follow(1, g, X)
\* returns has exactly the members of the reference FOLLOW_1(X): End iff X can
\* be last in a sentential form, byte c iff c can come right after X in one.
C2_FollowIsReference ==
  (pc = "ready" /\ last.fn = "h_follow" /\ last.k = 1) =>
    Members(heap, last.ret) = RefFollow[last.x]

\* C6: in every state of the grammar and for every symbol X, h_first(0, g, X)
\* and h_follow(0, g, X) return the set whose only member is the empty string
\* and leave g->kmax and the first and follow tables as they were.
C6_ZeroIsSingletonEpsilon ==
  pc = "ready" =>
    \A x \in DOMAIN sym :
      \A r \in {h_first(Grammar, 0, x), h_follow(Grammar, 0, x)} :
        /\ r.g = Grammar
        /\ is_singleton_epsilon(r.g.heap, r.ret)
        /\ Members(r.g.heap, r.ret) = {EpsTok}

\* a call with k = 0 has returned on a grammar whose tables for k = 1 exist
\* and hold sets
C6_Witness ==
  /\ pc = "ready"
  /\ last.k = 0 /\ last.fn = "h_follow"
  /\ kmax = 1
  /\ DOMAIN first[1] # {} /\ DOMAIN follow[1] # {}

\* C7: after any sequence of h_first and h_follow calls, the set that
\* h_follow(1, g, g->start) returns contains End; so does the set stored for
\* g->start when the entry was made inside the computation for another symbol.
C7_FollowStartHasEnd ==
  pc = "ready" =>
    /\ \A r \in {h_follow(Grammar, 1, start)} :
         EndTok \in Members(r.g.heap, r.ret)
    /\ (kmax >= 1 /\ start \in DOMAIN follow[1]) =>
         EndTok \in Members(heap, follow[1][start])

\* the last call was h_follow(1, g, X) for X other than g->start, and the
\* entry of g->start was made during it
C7_Witness ==
  /\ pc = "ready"
  /\ last.fn = "h_follow" /\ last.k = 1 /\ last.x # start
  /\ start \in DOMAIN follow[1]
  /\ follow[1][start] > AddrOf(last.before)

\* the (string, end) arguments of h_stringmap_present, strings of <= MaxStr bytes
Queries ==
  [str : UNION {[1..n -> Bytes] : n \in 0..MaxStr}, end : BOOLEAN]

\* the queries that h_stringmap_present answers with true on the set at m
Present(h, m) ==
  {q \in Queries : h_stringmap_present(h, m, q.str, Len(q.str), q.end)}

\* C10: once an outermost call with k = 1 has returned, no later call changes
\* what g->first[1] and g->follow[1] hold: every key keeps its set object, and
\* the set keeps its membership.
C10_StoredSetsAreFinal ==
  [][(pc = "ready" /\ kmax >= 1) =>
       /\ kmax' >= 1
       /\ \A x \in DOMAIN first[1] :
            /\ x \in DOMAIN first'[1]
            /\ first'[1][x] = first[1][x]
            /\ \/ heap' = heap
               \/ Present(heap', first[1][x]) = Present(heap, first[1][x])
       /\ \A x \in DOMAIN follow[1] :
            /\ x \in DOMAIN follow'[1]
            /\ follow'[1][x] = follow[1][x]
            /\ \/ heap' = heap
               \/ Present(heap', follow[1][x]) = Present(heap, follow[1][x])]_vars

\* the last call computed a new set, and took a byte into it from a set that
\* an earlier call had stored
C10_Witness ==
  /\ pc = "ready"
  /\ last.k = 1
  /\ last.ret > AddrOf(last.before)
  /\ \E x \in DOMAIN first[1] :
       /\ first[1][x] <= AddrOf(last.before)
       /\ sym[x].type = "HCF_CHOICE"
       /\ Members(heap, first[1][x]) \cap Members(heap, last.ret) \cap Bytes # {}

-----------------------------------------------------------------------------
(* String sets on their own: two sets A and B, built with put_epsilon,      *)
(* put_end and put_char on their nodes, and united with h_stringmap_update  *)

\* the sets A and B
Roots == {AddrOf(1), AddrOf(2)}

\* the nodes allocated so far
Nodes == {AddrOf(i) : i \in 1..Len(heap)}

\* last in this specification: the h_stringmap_update that returned last, with
\* the nodes as they were before it; NoUpdate after any other call
NoUpdate == [fn |-> "none", m |-> NULL, n |-> NULL, heap |-> << >>]

InitTrie ==
  /\ heap = h_stringmap_new(h_stringmap_new(<< >>).heap).heap
  /\ last = NoUpdate
  /\ pc = "trie"
  /\ sym = Store([x \in Nonterminals |-> EpsOnly])
  /\ root = "N1"
  /\ nts = EmptyTable
  /\ ntsOrder = << >>
  /\ start = "none"
  /\ geneps = {}
  /\ prevused = 0
  /\ passes = 0
  /\ first = NULL
  /\ follow = NULL
  /\ kmax = 0
  /\ singleton_epsilon = NULL
  /\ frames = << >>

TrieFrame ==
  UNCHANGED << sym, root, pc, nts, ntsOrder, start, geneps, prevused, passes,
               first, follow, kmax, singleton_epsilon, frames >>

PutEpsilon(m) ==
  /\ pc = "trie"
  /\ heap' = h_stringmap_put_epsilon(heap, m, INSET)
  /\ last' = NoUpdate
  /\ TrieFrame

PutEnd(m) ==
  /\ pc = "trie"
  /\ heap' = h_stringmap_put_end(heap, m, INSET)
  /\ last' = NoUpdate
  /\ TrieFrame

\* the arena gives out MaxNodes nodes
PutChar(m, c) ==
  /\ pc = "trie"
  /\ Len(heap) < MaxNodes
  /\ heap' = h_stringmap_put_char(heap, m, c, INSET)
  /\ last' = NoUpdate
  /\ TrieFrame

Update(m, n) ==
  /\ pc = "trie"
  /\ heap' = h_stringmap_update(heap, m, n)
  /\ last' = [fn |-> "h_stringmap_update", m |-> m, n |-> n, heap |-> heap]
  /\ TrieFrame

NextTrie ==
  \/ \E m \in Nodes : PutEpsilon(m)
  \/ \E m \in Nodes : PutEnd(m)
  \/ \E m \in Nodes : \E c \in Bytes : PutChar(m, c)
  \/ \E m \in Roots : \E n \in Roots : Update(m, n)

SpecTrie == InitTrie /\ [][NextTrie]_vars

\* C8: after h_stringmap_update(A, B) a string is present in A iff it was
\* present in A or in B before the call.
C8_UpdateIsUnion ==
  last.fn = "h_stringmap_update" =>
    Present(heap, last.m) = Present(last.heap, last.m) \cup
                            Present(last.heap, last.n)

-----------------------------------------------------------------------------
(* The queries, call by call.  `frames` holds the activation records of the  *)
(* calls in progress, the innermost last.  A record is                       *)
(*   fn   the function, at  where the call is, k  its k,                     *)
(*   x    the symbol argument (of stringset_extend: the symbol *tail),       *)
(*   s    the sequence argument (tail of first_extend), ret, as  its sets,   *)
(*   i    the loop index, todo  the keys of as->char_branches not yet        *)
(*   visited, rv  what the call it made last returned.                       *)
(* A step of a function is one of: go on in the same call, call a function,  *)
(* return a value.                                                           *)

\* the number of activation records is capped at MaxStack
MaxStack == 16

NoFrame == [fn |-> "none"]

Frame(fn, k, x, s, ret, as) ==
  [fn |-> fn, at |-> "entry", k |-> k, x |-> x, s |-> s, ret |-> ret,
   as |-> as, i |-> 1, todo |-> {}, rv |-> NULL]

Goto(G, f) == [kind |-> "goto", g |-> G, top |-> f, call |-> NoFrame, rv |-> NULL]

CallOf(G, f, c) == [kind |-> "call", g |-> G, top |-> f, call |-> c, rv |-> NULL]

Return(G, v) ==
  [kind |-> "return", g |-> G, top |-> NoFrame, call |-> NoFrame, rv |-> v]

\* h_first that does not register ret in g->first[k] before it computes
h_first_step_unregistered(G, f) ==
  CASE f.at = "entry" ->
         IF f.k = 0 THEN Return(G, singleton_epsilon)
         ELSE
           LET G1  == ensure_k(G, f.k)
               hit == h_hashtable_get(G1.first[f.k], f.x)
               r   == h_stringmap_new(G1.heap)
               G2  == [G1 EXCEPT !.heap = r.heap]
           IN  IF hit # NULL THEN Return(G1, hit)
               ELSE IF sym[f.x].type = "HCF_END"
                 THEN Return([G2 EXCEPT !.heap =
                                h_stringmap_put_end(@, r.ret, INSET)], r.ret)
               ELSE IF sym[f.x].type = "HCF_CHAR"
                 THEN Return([G2 EXCEPT !.heap =
                                h_stringmap_put_char(@, r.ret, sym[f.x].chr, INSET)],
                             r.ret)
               ELSE IF sym[f.x].type = "HCF_CHARSET"
                 THEN Return([G2 EXCEPT !.heap =
                                first_charset(@, r.ret, sym[f.x].charset, 0)],
                             r.ret)
               ELSE Goto(G2, [f EXCEPT !.at = "loop", !.ret = r.ret])
    [] f.at = "loop" ->
         IF f.i > Len(sym[f.x].seq) THEN Return(G, f.ret)
         ELSE CallOf(G, [f EXCEPT !.at = "update"],
                     Frame("h_first_seq", f.k, "none", sym[f.x].seq[f.i],
                           NULL, NULL))
    [] f.at = "update" ->
         Goto([G EXCEPT !.heap = h_stringmap_update(@, f.ret, f.rv)],
              [f EXCEPT !.at = "loop", !.i = @ + 1])

\* one step of h_first(k, g, x)
h_first_step(G, f) ==
  CASE f.at = "entry" ->
         IF f.k = 0 THEN Return(G, singleton_epsilon)
         ELSE
           LET G1  == ensure_k(G, f.k)
               hit == h_hashtable_get(G1.first[f.k], f.x)
               r   == h_stringmap_new(G1.heap)
               G2  == [G1 EXCEPT !.heap = r.heap,
                                 !.first[f.k] = h_hashtable_put(@, f.x, r.ret)]
           IN  IF hit # NULL THEN Return(G1, hit)
               ELSE IF sym[f.x].type = "HCF_END"
                 THEN Return([G2 EXCEPT !.heap =
                                h_stringmap_put_end(@, r.ret, INSET)], r.ret)
               ELSE IF sym[f.x].type = "HCF_CHAR"
                 THEN Return([G2 EXCEPT !.heap =
                                h_stringmap_put_char(@, r.ret, sym[f.x].chr, INSET)],
                             r.ret)
               ELSE IF sym[f.x].type = "HCF_CHARSET"
                 THEN Return([G2 EXCEPT !.heap =
                                first_charset(@, r.ret, sym[f.x].charset, 0)],
                             r.ret)
               ELSE Goto(G2, [f EXCEPT !.at = "loop", !.ret = r.ret])
    [] f.at = "loop" ->
         IF f.i > Len(sym[f.x].seq) THEN Return(G, f.ret)
         ELSE CallOf(G, [f EXCEPT !.at = "update"],
                     Frame("h_first_seq", f.k, "none", sym[f.x].seq[f.i],
                           NULL, NULL))
    [] f.at = "update" ->
         Goto([G EXCEPT !.heap = h_stringmap_update(@, f.ret, f.rv)],
              [f EXCEPT !.at = "loop", !.i = @ + 1])

\* one step of h_first_seq(k, g, s)
h_first_seq_step(G, f) ==
  CASE f.at = "entry" ->
         IF f.s = << >> THEN Return(G, singleton_epsilon)
         ELSE CallOf(G, [f EXCEPT !.at = "first_x"],
                     Frame("h_first", f.k, Head(f.s), << >>, NULL, NULL))
    [] f.at = "first_x" ->
         IF is_singleton_epsilon(G.heap, f.rv)
           THEN CallOf(G, [f EXCEPT !.at = "return"],
                       Frame("h_first_seq", f.k, "none", Tail(f.s), NULL, NULL))
         ELSE IF ~any_string_shorter(G.heap, f.k, f.rv)
           THEN Return(G, f.rv)
         ELSE
           LET r == h_stringmap_new(G.heap)
           IN  CallOf([G EXCEPT !.heap = r.heap],
                      [f EXCEPT !.at = "extended", !.ret = r.ret],
                      Frame("first_extend", f.k, "none", Tail(f.s), r.ret, f.rv))
    [] f.at = "return" -> Return(G, f.rv)
    [] f.at = "extended" -> Return(G, f.ret)

\* one step of first_extend (callee = "h_first_seq") and of stringset_extend
\* (callee = "h_follow", the function its f points to): the two differ in the
\* call they make for the empty string only
extend_step(G, f, callee) ==
  CASE f.at = "entry" ->
         IF Node(G.heap, f.as).epsilon_branch # NULL
           THEN CallOf(G, [f EXCEPT !.at = "update"],
                       IF callee = "h_follow"
                         THEN Frame("h_follow", f.k, f.x, << >>, NULL, NULL)
                         ELSE Frame("h_first_seq", f.k, "none", f.s, NULL, NULL))
           ELSE Goto(G, [f EXCEPT !.at = "end"])
    [] f.at = "update" ->
         Goto([G EXCEPT !.heap = h_stringmap_update(@, f.ret, f.rv)],
              [f EXCEPT !.at = "end"])
    [] f.at = "end" ->
         LET G2 == IF Node(G.heap, f.as).end_branch # NULL
                     THEN [G EXCEPT !.heap = h_stringmap_put_end(@, f.ret, INSET)]
                     ELSE G
         IN  Goto(G2, [f EXCEPT !.at = "branches",
                                !.todo = DOMAIN Node(G2.heap, f.as).char_branches])
    [] f.at = "branches" ->
         IF f.todo = {} THEN Return(G, NULL)
         ELSE
           LET c   == MinOf(f.todo)
               as_ == Node(G.heap, f.as).char_branches[c]
               r   == h_stringmap_new(G.heap)
               h1  == h_stringmap_put_char(r.heap, f.ret, c, r.ret)
           IN  CallOf([G EXCEPT !.heap = h1], [f EXCEPT !.todo = @ \ {c}],
                      Frame(f.fn, f.k - 1, f.x, f.s, r.ret, as_))

first_extend_step(G, f) == extend_step(G, f, "h_first_seq")

stringset_extend_step(G, f) == extend_step(G, f, "h_follow")

\* the occurrences of x that h_follow visits, in the order of its three loops:
\* a is the left-hand side, tail what follows x in the production
RECURSIVE Occurrences(_, _, _, _)
Occurrences(x, i, p, s) ==
  IF i > Len(ntsOrder) THEN << >>
  ELSE IF p > Len(sym[ntsOrder[i]].seq) THEN Occurrences(x, i + 1, 1, 1)
  ELSE IF s > Len(sym[ntsOrder[i]].seq[p]) THEN Occurrences(x, i, p + 1, 1)
  ELSE (IF sym[ntsOrder[i]].seq[p][s] = x
          THEN << [a    |-> ntsOrder[i],
                   tail |-> SubSeq(sym[ntsOrder[i]].seq[p], s + 1,
                                   Len(sym[ntsOrder[i]].seq[p]))] >>
          ELSE << >>) \o Occurrences(x, i, p, s + 1)

\* one step of h_follow(k, g, x)
h_follow_step(G, f) ==
  CASE f.at = "entry" ->
         IF f.k = 0 THEN Return(G, singleton_epsilon)
         ELSE
           LET G1  == ensure_k(G, f.k)
               hit == h_hashtable_get(G1.follow[f.k], f.x)
               r   == h_stringmap_new(G1.heap)
               G2  == [G1 EXCEPT !.heap = r.heap,
                                 !.follow[f.k] = h_hashtable_put(@, f.x, r.ret)]
           IN  IF hit # NULL THEN Return(G1, hit)
               ELSE Goto(IF f.x = start
                           THEN [G2 EXCEPT !.heap =
                                   h_stringmap_put_end(@, r.ret, INSET)]
                           ELSE G2,
                         [f EXCEPT !.at = "loop", !.ret = r.ret])
    [] f.at = "loop" ->
         IF f.i > Len(Occurrences(f.x, 1, 1, 1)) THEN Return(G, f.ret)
         ELSE CallOf(G, [f EXCEPT !.at = "first_tail"],
                     Frame("h_first_seq", f.k, "none",
                           Occurrences(f.x, 1, 1, 1)[f.i].tail, NULL, NULL))
    [] f.at = "first_tail" ->
         CallOf(G, [f EXCEPT !.at = "loop", !.i = @ + 1],
                Frame("stringset_extend", f.k, Occurrences(f.x, 1, 1, 1)[f.i].a,
                      << >>, f.ret, f.rv))

\* the innermost call in progress
Top == frames[Len(frames)]

\* the step r takes effect: the callee is pushed, or the caller gets the value
\* returned; the value the outermost call returns goes to last
Apply(r) ==
  /\ heap' = r.g.heap
  /\ first' = r.g.first
  /\ follow' = r.g.follow
  /\ kmax' = r.g.kmax
  /\ CASE r.kind = "goto" ->
            /\ frames' = [frames EXCEPT ![Len(frames)] = r.top]
            /\ last' = last
       [] r.kind = "call" ->
            /\ Len(frames) < MaxStack
            /\ frames' = Append([frames EXCEPT ![Len(frames)] = r.top], r.call)
            /\ last' = last
       [] r.kind = "return" ->
            IF Len(frames) = 1
              THEN /\ frames' = << >>
                   /\ last' = [last EXCEPT !.ret = r.rv]
              ELSE /\ frames' = [SubSeq(frames, 1, Len(frames) - 1)
                                  EXCEPT ![Len(frames) - 1].rv = r.rv]
                   /\ last' = last
  /\ UNCHANGED << sym, root, pc, nts, ntsOrder, start, geneps, prevused,
                  passes, singleton_epsilon >>

Running(fn) == frames # << >> /\ Top.fn = fn

RunFirst == Running("h_first") /\ \E r \in {h_first_step(Grammar, Top)} : Apply(r)

RunFirstSeq ==
  Running("h_first_seq") /\ \E r \in {h_first_seq_step(Grammar, Top)} : Apply(r)

RunFirstExtend ==
  Running("first_extend") /\ \E r \in {first_extend_step(Grammar, Top)} : Apply(r)

RunFollow ==
  Running("h_follow") /\ \E r \in {h_follow_step(Grammar, Top)} : Apply(r)

RunStringsetExtend ==
  /\ Running("stringset_extend")
  /\ \E r \in {stringset_extend_step(Grammar, Top)} : Apply(r)

\* the program goes on with the call in progress
Run == RunFirst \/ RunFirstSeq \/ RunFirstExtend \/ RunFollow \/ RunStringsetExtend

\* the caller makes a call while g->arena holds at most MaxArena string sets
MaxArena == 6

\* the caller calls fn(k, g, x) or h_first_seq(k, g, s)
Enter(fn, k, x, s) ==
  /\ pc = "ready"
  /\ frames = << >>
  /\ Len(heap) <= MaxArena
  /\ frames' = << Frame(fn, k, x, s, NULL, NULL) >>
  /\ last' = [fn |-> fn, k |-> k, x |-> x, ret |-> NULL, before |-> Len(heap)]
  /\ UNCHANGED << sym, root, pc, nts, ntsOrder, start, geneps, prevused, passes,
                  heap, first, follow, kmax, singleton_epsilon >>

\* the right-hand sides of the grammar
Productions == UNION {Range(sym[a].seq) : a \in DOMAIN nts}

\* grammars over N1 and N2 on which the calls are followed: with direct left
\* recursion (N1 -> N1 a), mutual recursion (N1 -> N2, N2 -> N1) and FOLLOW
\* sets that depend on themselves (N2 -> N2 N1)
CallRhs1 == { << >>, <<"N1", "a">>, <<"N2">>, <<"N2", "b">> }
CallRhs2 == { <<"b">>, <<"N1">>, <<"N1", "b">>, <<"N2", "N1">> }
CallGrammars ==
  { [x \in Nonterminals |->
       IF x = "N1" THEN p1 ELSE IF x = "N2" THEN p2 ELSE EpsOnly] :
    p1 \in ProdLists(CallRhs1), p2 \in ProdLists(CallRhs2) }

InitCalls == InitGrammar(CallGrammars, {"N1"})

NextCalls ==
  \/ HCfgrammar
  \/ GenepsPass
  \/ \E x \in DOMAIN nts : Enter("h_first", 1, x, << >>)
  \/ \E s \in Productions : Enter("h_first_seq", 1, "none", s)
  \/ \E x \in DOMAIN nts : Enter("h_follow", 1, x, << >>)
  \/ Run

SpecCalls == InitCalls /\ [][NextCalls]_vars /\ WF_vars(Run)

\* C11: every call h_first(1, g, X), h_first_seq(1, g, s) and h_follow(1, g, X)
\* returns, whatever the grammar: a call in progress leads to no call in
\* progress.
C11_QueriesTerminate == (frames # << >>) ~> (frames = << >>)

\* a call of h_first for a symbol whose h_first is in progress, about to find
\* the set registered for it
C11_Witness ==
  /\ Len(frames) >= 2
  /\ Top.fn = "h_first"
  /\ Top.at = "entry"
  /\ \E i \in 1..(Len(frames) - 1) :
       /\ frames[i].fn = "h_first"
       /\ frames[i].x = Top.x
       /\ frames[i].k = Top.k

-----------------------------------------------------------------------------
(* Queries in different orders *)

\* the mutable part of a second copy of the grammar, on which no query was
\* made: what h_cfgrammar_new left
Unqueried ==
  [heap   |-> h_cfgrammar_new.heap,   first |-> h_cfgrammar_new.first,
   follow |-> h_cfgrammar_new.follow, kmax  |-> h_cfgrammar_new.kmax]

\* the members of the set that fn(1, g, x) returns as the first query on g
AsFirstQuery(fn, x) ==
  LET r == IF fn = "h_first" THEN h_first(Unqueried, 1, x)
           ELSE h_follow(Unqueried, 1, x)
  IN  Members(r.g.heap, r.ret)

\* C12: the set that h_first(1, g, X) or h_follow(1, g, X) returns has the
\* members it has when the call is the first query on g, whatever queries were
\* made on g before it.
C12_QueryOrderIrrelevant ==
  (pc = "ready" /\ last.fn \in {"h_first", "h_follow"} /\ last.k = 1) =>
     Members(heap, last.ret) = AsFirstQuery(last.fn, last.x)

=============================================================================
